---- MODULE Spec2Model ----
(***************************************************************************)
(* Model of the movie recommendation service                               *)
(* (services/recommendation_service.py, app.py).                           *)
(*                                                                         *)
(* Conventions.  Python None is the empty tuple and a present value x is   *)
(* the one-element tuple <<x>>.  Strings are sequences of one-character    *)
(* strings.  Row positions are 1-based here (0-based in pandas).  Real     *)
(* numbers are exact rationals [num, den] or fixed-point integers:         *)
(* vote_average and min_rating are in hundredths, a rating rounded to one  *)
(* decimal is in tenths, a similarity or score rounded to three decimals   *)
(* is in thousandths.                                                      *)
(***************************************************************************)
EXTENDS Integers, Sequences, FiniteSets, TLC

None == <<>>
Some(x) == <<x>>
IsNone(o) == o = <<>>
Get(o) == o[1]

Max2(a, b) == IF a >= b THEN a ELSE b
Abs(a) == IF a >= 0 THEN a ELSE 0 - a

\* Exact rationals with a positive denominator.
Rat(n, d) == [num |-> n, den |-> d]
RatGE(x, y) == x.num * y.den >= y.num * x.den
RatGT(x, y) == x.num * y.den > y.num * x.den
RatEQ(x, y) == x.num * y.den = y.num * x.den

\* round(n / d) for d > 0, ties to the even neighbour (Python's round()).
RoundDiv(n, d) ==
    LET q == n \div d
        r == n % d
    IN  IF 2 * r < d THEN q
        ELSE IF 2 * r > d THEN q + 1
        ELSE IF q % 2 = 0 THEN q ELSE q + 1

(***************************************************************************)
(* rapidfuzz: fuzz.ratio, process.extract, process.extractOne              *)
(***************************************************************************)
RECURSIVE LCS(_, _)
LCS(s, t) ==
    IF s = <<>> \/ t = <<>> THEN 0
    ELSE IF Head(s) = Head(t) THEN 1 + LCS(Tail(s), Tail(t))
    ELSE Max2(LCS(Tail(s), t), LCS(s, Tail(t)))

\* fuzz.ratio: the normalized Indel similarity, 100 * 2*LCS / (|s| + |t|),
\* and 100 for two empty strings.
FuzzRatio(s, t) ==
    IF Len(s) + Len(t) = 0 THEN Rat(100, 1)
    ELSE Rat(200 * LCS(s, t), Len(s) + Len(t))

\* i is listed before j: higher score first, ties in list order.
ListedBefore(query, titles, i, j) ==
    LET si == FuzzRatio(query, titles[i])
        sj == FuzzRatio(query, titles[j])
    IN  RatGT(si, sj) \/ (RatEQ(si, sj) /\ i < j)

\* The positions of titles in the order process.extract lists them.
ExtractOrder(query, titles) ==
    [k \in 1..Len(titles) |->
        CHOOSE i \in 1..Len(titles) :
            Cardinality({j \in 1..Len(titles) :
                            ListedBefore(query, titles, j, i)}) = k - 1]

MinNat(a, b) == IF a <= b THEN a ELSE b

\* process.extract(query, titles, scorer=fuzz.ratio, limit=limit): the limit
\* best (title, score, index) triples, no score cutoff.
ProcessExtract(query, titles, limit) ==
    LET order == ExtractOrder(query, titles)
        n == MinNat(Max2(limit, 0), Len(titles))
    IN  [k \in 1..n |->
            [title |-> titles[order[k]],
             score |-> FuzzRatio(query, titles[order[k]]),
             idx |-> order[k]]]

\* process.extractOne: the first best triple, None for no choices.
ProcessExtractOne(query, titles) ==
    IF Len(titles) = 0 THEN None
    ELSE Some(ProcessExtract(query, titles, 1)[1])

(***************************************************************************)
(* The catalog: a dataframe row is [title, vote_average, vote_count], the  *)
(* dataframe index is the default RangeIndex, an embedding is a pair of    *)
(* integers with an integral Euclidean norm.                               *)
(***************************************************************************)
Err(name) == [kind |-> "error", exc |-> name]

\* round(x, 1) of a value given in hundredths: the result in tenths.
Round1(hundredths) == RoundDiv(hundredths, 10)

Dot(a, b) == a[1] * b[1] + a[2] * b[2]

\* sklearn normalizes each row by its Euclidean norm, a zero norm counting as 1.
Norm(a) ==
    LET sq == Dot(a, a)
    IN  IF sq = 0 THEN 1 ELSE CHOOSE n \in 1..sq : n * n = sq

RECURSIVE Gcd(_, _)
Gcd(a, b) == IF b = 0 THEN a ELSE Gcd(b, a % b)

Lcm(a, b) == (a * b) \div Gcd(a, b)

RECURSIVE NormLcm(_)
NormLcm(embs) ==
    IF embs = <<>> THEN 1 ELSE Lcm(Norm(Head(embs)), NormLcm(Tail(embs)))

\* cosine_similarity(embeddings[anchor], embeddings)[i], an exact rational.
CosineSimilarity(embs, anchor, i) ==
    Rat(Dot(embs[anchor], embs[i]), Norm(embs[anchor]) * Norm(embs[i]))

\* np.log1p(v) in hundredths, for the vote counts of the model.
Log1pTable == <<0, 69, 110, 139, 161>>
Log1p(v) == Log1pTable[v + 1]

RECURSIVE MaxLog1p(_)
MaxLog1p(df) ==
    IF df = <<>> THEN 0
    ELSE Max2(Log1p(Head(df).vote_count), MaxLog1p(Tail(df)))

\* log1p(vote_count) / log1p(vote_count.max()): 0/0 is NaN in numpy, no
\* exception is raised.
PopularityIsNaN(df) == MaxLog1p(df) = 0

\* final_score = similarity * 0.6 + quality_score * 0.4 with
\* quality_score = (vote_average / 10) * 0.7 + popularity * 0.3,
\* as the numerator over FinalDen(df, embs, anchor); meaningful unless NaN.
FinalDen(df, embs, anchor) ==
    10 * Norm(embs[anchor]) * NormLcm(embs) * 10000 * MaxLog1p(df)

FinalNum(df, embs, anchor, i) ==
    LET lpmax == MaxLog1p(df)
        L == NormLcm(embs)
    IN  6 * Dot(embs[anchor], embs[i]) * (L \div Norm(embs[i])) * 10000 * lpmax
        + 4 * (7 * df[i].vote_average * lpmax
               + 3000 * Log1p(df[i].vote_count))
            * Norm(embs[anchor]) * L

\* The filter without `df_work.index != movie_idx`.
PassesFilterKeepingAnchor(df, i, anchor, min_votes, min_rating) ==
    /\ df[i].vote_count >= min_votes
    /\ df[i].vote_average >= min_rating

\* The filter without `df_work['vote_average'] >= min_rating`.
PassesFilterIgnoringRating(df, i, anchor, min_votes, min_rating) ==
    /\ df[i].vote_count >= min_votes
    /\ i # anchor

\* The filter of lines 143-147.
PassesFilter(df, i, anchor, min_votes, min_rating) ==
    /\ df[i].vote_count >= min_votes
    /\ df[i].vote_average >= min_rating
    /\ i # anchor

\* Row i comes before row j in nlargest(top_n, 'final_score'): the larger
\* final_score first, equal scores (keep='first') and NaN scores in row order.
RankedBefore(df, embs, anchor, i, j) ==
    IF PopularityIsNaN(df) THEN i < j
    ELSE LET fi == FinalNum(df, embs, anchor, i)
             fj == FinalNum(df, embs, anchor, j)
         IN  fi > fj \/ (fi = fj /\ i < j)

\* The whole filtered frame in score order, top_n ignored.
NLargestUnbounded(df, embs, anchor, rows, top_n) ==
    [k \in 1..Cardinality(rows) |->
        CHOOSE i \in rows :
            Cardinality({j \in rows :
                            RankedBefore(df, embs, anchor, j, i)}) = k - 1]

\* filtered.nlargest(top_n, 'final_score') as the sequence of row positions.
\* The scores of one call are all NaN or none is; NaN rows are kept, in row
\* order, as nlargest does whenever top_n >= len(filtered).
NLargest(df, embs, anchor, rows, top_n) ==
    LET n == MinNat(Max2(top_n, 0), Cardinality(rows))
    IN  [k \in 1..n |->
            CHOOSE i \in rows :
                Cardinality({j \in rows :
                                RankedBefore(df, embs, anchor, j, i)}) = k - 1]

\* One entry of the recommendations list (lines 155-161); idx is the row
\* label iterrows() yields next to the row.
FormatRow(df, embs, anchor, i) ==
    [idx |-> i,
     title |-> df[i].title,
     rating |-> Round1(df[i].vote_average),
     votes |-> df[i].vote_count,
     similarity |-> RoundDiv(1000 * CosineSimilarity(embs, anchor, i).num,
                             CosineSimilarity(embs, anchor, i).den),
     nan |-> PopularityIsNaN(df),
     score |-> IF PopularityIsNaN(df) THEN 0
               ELSE RoundDiv(FinalNum(df, embs, anchor, i),
                             FinalDen(df, embs, anchor) \div 1000)]

(***************************************************************************)
(* The operations of RecommendationService, as functions of the fields a   *)
(* call reads.  dfO, embO and titlesO are self._df, self._embeddings and   *)
(* self._movie_titles: None or a value.                                    *)
(***************************************************************************)
Threshold == 60
SuggestionLimit == 3

\* match[1] >= threshold
AcceptsStrictly(score, threshold) == RatGT(score, Rat(threshold, 1))
Accepts(score, threshold) == RatGE(score, Rat(threshold, 1))

\* search_movie(query, limit)
SearchMovie(dfO, titlesO, query, limit) ==
    IF IsNone(titlesO) THEN Err("TypeError")
    ELSE LET matches == ProcessExtract(query, Get(titlesO), limit)
         IN  IF matches = <<>> THEN [kind |-> "search", results |-> <<>>]
             ELSE IF IsNone(dfO) THEN Err("AttributeError")
             ELSE IF \E k \in 1..Len(matches) : matches[k].idx > Len(Get(dfO))
                  THEN Err("IndexError")
             ELSE [kind |-> "search",
                   results |->
                     [k \in 1..Len(matches) |->
                        [title |-> Get(dfO)[matches[k].idx].title,
                         match_score |-> RoundDiv(10 * matches[k].score.num,
                                                  matches[k].score.den),
                         rating |-> Round1(Get(dfO)[matches[k].idx].vote_average),
                         votes |-> Get(dfO)[matches[k].idx].vote_count]]]

\* find_movie(title, threshold): [kind |-> "found", title |-> None or a title]
FindMovie(titlesO, title, threshold) ==
    IF IsNone(titlesO) THEN Err("TypeError")
    ELSE LET match == ProcessExtractOne(title, Get(titlesO))
         IN  IF ~IsNone(match) /\ Accepts(Get(match).score, threshold)
             THEN [kind |-> "found", title |-> Some(Get(match).title)]
             ELSE [kind |-> "found", title |-> None]

\* self._df[self._df['title'] == matched_title].index: the matching rows.
RowsTitled(df, title) == {i \in 1..Len(df) : df[i].title = title}

MinOf(S) == CHOOSE x \in S : \A y \in S : x <= y

\* The rows that survive the filter of lines 143-147.
Filtered(df, anchor, min_votes, min_rating) ==
    {i \in 1..Len(df) : PassesFilter(df, i, anchor, min_votes, min_rating)}

\* get_recommendations(movie_name, top_n, min_votes, min_rating).  movie_idx
\* is the local variable of line 123, kept next to the returned dict.
GetRecommendations(dfO, embO, titlesO, movie_name, top_n, min_votes, min_rating) ==
    LET found == FindMovie(titlesO, movie_name, Threshold)
    IN  IF found.kind = "error" THEN found
        ELSE IF IsNone(found.title) \/ Get(found.title) = <<>>
        THEN LET sugg == SearchMovie(dfO, titlesO, movie_name, SuggestionLimit)
             IN  IF sugg.kind = "error" THEN sugg
                 ELSE [kind |-> "not_found", suggestions |-> sugg.results]
        ELSE IF IsNone(dfO) THEN Err("TypeError")
        ELSE IF RowsTitled(Get(dfO), Get(found.title)) = {} THEN Err("IndexError")
        ELSE LET df == Get(dfO)
                 movie_idx == MinOf(RowsTitled(df, Get(found.title)))
             IN  IF IsNone(embO) THEN Err("TypeError")
                 ELSE IF movie_idx > Len(Get(embO)) THEN Err("IndexError")
                 ELSE IF Len(Get(embO)) # Len(df) THEN Err("ValueError")
                 ELSE LET embs == Get(embO)
                          top == NLargest(df, embs, movie_idx,
                                          Filtered(df, movie_idx, min_votes, min_rating),
                                          top_n)
                          results == [k \in 1..Len(top) |->
                                        FormatRow(df, embs, movie_idx, top[k])]
                      IN  [kind |-> "recommendations",
                           input_movie |-> Get(found.title),
                           total_recommendations |-> Len(results),
                           recommendations |-> results,
                           movie_idx |-> movie_idx]

\* get_movie_details(title); overview and genres are left out of the model.
GetMovieDetails(dfO, titlesO, title) ==
    LET found == FindMovie(titlesO, title, Threshold)
    IN  IF found.kind = "error" THEN found
        ELSE IF IsNone(found.title) \/ Get(found.title) = <<>>
        THEN [kind |-> "details", movie |-> None]
        ELSE IF IsNone(dfO) THEN Err("TypeError")
        ELSE IF RowsTitled(Get(dfO), Get(found.title)) = {} THEN Err("IndexError")
        ELSE LET row == Get(dfO)[MinOf(RowsTitled(Get(dfO), Get(found.title)))]
             IN  [kind |-> "details",
                  movie |-> Some([title |-> row.title,
                                  rating |-> Round1(row.vote_average),
                                  votes |-> row.vote_count])]

\* health_check() of app.py once service.model has returned.
HealthCheck(dfO) ==
    IF IsNone(dfO)
    THEN [kind |-> "health", status |-> "unhealthy", model_loaded |-> FALSE,
          total_movies |-> 0]
    ELSE [kind |-> "health", status |-> "healthy", model_loaded |-> TRUE,
          total_movies |-> Len(Get(dfO))]

(***************************************************************************)
(* Bounds and input pools.                                                 *)
(***************************************************************************)
MaxRows == 4
MaxLimit == 2
MaxTopN == 2

Str_ab == <<"a", "b">>
Str_aaabb == <<"a", "a", "a", "b", "b">>
Str_aaacc == <<"a", "a", "a", "c", "c">>
Str_cc == <<"c", "c">>
Str_blank == <<" ">>

CatRow(t, va, vc, e) ==
    [title |-> t, vote_average |-> va, vote_count |-> vc, embedding |-> e]

\* Two rows share a title; one row has no votes; 6.04 rounds to 6.0.
RowPool ==
    {CatRow(Str_ab, 604, 3, <<1, 0>>),
     CatRow(Str_ab, 700, 1, <<3, 4>>),
     CatRow(Str_aaabb, 550, 0, <<0, 1>>)}

\* Catalogs in which no row has a vote, with rows of different ratings.
ZeroVoteRows ==
    {CatRow(Str_aaabb, 550, 0, <<0, 1>>),
     CatRow(Str_aaabb, 800, 0, <<0, 1>>)}

DegenerateCatalogs == [1..3 -> ZeroVoteRows]

Catalogs == UNION {[1..n -> RowPool] : n \in 0..MaxRows} \cup DegenerateCatalogs

Queries == {<<>>, Str_blank, Str_ab, Str_aaacc, Str_cc}
MinVotesPool == {0, 1}
MinRatingPool == {0, 604}

\* The three collections of the pickled dict, built from a catalog.
DataframeOf(c) ==
    [i \in 1..Len(c) |-> [title |-> c[i].title,
                          vote_average |-> c[i].vote_average,
                          vote_count |-> c[i].vote_count]]
EmbeddingsOf(c) == [i \in 1..Len(c) |-> c[i].embedding]
TitlesOf(c) == [i \in 1..Len(c) |-> c[i].title]

\* The unpickled dict; a missing key is None.
Pickle(dfO, embO, titlesO) ==
    [dataframe |-> dfO, embeddings |-> embO, movie_titles |-> titlesO]

\* An artifact whose three collections are index-aligned.
AlignedArtifact(c) ==
    Some(Pickle(Some(DataframeOf(c)), Some(EmbeddingsOf(c)), Some(TitlesOf(c))))

BaseCatalog ==
    <<CatRow(Str_ab, 604, 3, <<1, 0>>),
      CatRow(Str_ab, 700, 1, <<3, 4>>),
      CatRow(Str_aaabb, 550, 0, <<0, 1>>)>>
ShortCatalog == SubSeq(BaseCatalog, 1, 2)

\* What may be found at model_path: no file (None), or a dict in which any
\* key may be missing and the collections may differ in length.
LoadArtifacts ==
    {None} \cup
    {Some(Pickle(d, e, t)) :
        d \in {None, Some(DataframeOf(BaseCatalog))},
        e \in {None, Some(EmbeddingsOf(BaseCatalog)), Some(EmbeddingsOf(ShortCatalog))},
        t \in {None, Some(TitlesOf(BaseCatalog)), Some(TitlesOf(ShortCatalog))}}

Threads == {"t1", "t2"}
MainThread == "t1"

Req(op, q, limit, top_n, min_votes, min_rating) ==
    [op |-> op, query |-> q, limit |-> limit, top_n |-> top_n,
     min_votes |-> min_votes, min_rating |-> min_rating]

\* The calls of the engine specification.
Requests ==
    {Req("search_movie", q, l, 0, 0, 0) : q \in Queries, l \in 1..MaxLimit}
    \cup {Req("find_movie", q, 0, 0, 0, 0) : q \in Queries}
    \cup {Req("get_movie_details", q, 0, 0, 0, 0) : q \in Queries}
    \cup {Req("get_recommendations", q, 0, n, v, r) :
            q \in Queries, n \in 1..MaxTopN, v \in MinVotesPool, r \in MinRatingPool}
    \cup {Req("health_check", <<>>, 0, 0, 0, 0)}

\* The calls of the concurrent specification.
ConcurrentRequests ==
    {Req("search_movie", Str_ab, 2, 0, 0, 0),
     Req("find_movie", Str_cc, 0, 0, 0, 0),
     Req("get_movie_details", Str_ab, 0, 0, 0, 0),
     Req("get_recommendations", Str_ab, 0, 1, 0, 0),
     Req("health_check", <<>>, 0, 0, 0, 0)}

(***************************************************************************)
(* State.                                                                  *)
(***************************************************************************)
VARIABLES
    artifact,       \* the content of the file at model_path
    _model,         \* RecommendationService._model
    _df,            \* RecommendationService._df
    _embeddings,    \* RecommendationService._embeddings
    _movie_titles,  \* RecommendationService._movie_titles
    loads,          \* how many times pickle.load (line 41) has completed
    pc,             \* per thread: where its call stands
    req,            \* per thread: the call it makes
    res             \* per thread: what its last call returned or raised

vars == <<artifact, _model, _df, _embeddings, _movie_titles, loads, pc, req, res>>

NoRequest == Req("none", <<>>, 0, 0, 0, 0)
NoResult == [kind |-> "none"]

\* RecommendationService.__init__
InitService ==
    /\ _model = None
    /\ _df = None
    /\ _embeddings = None
    /\ _movie_titles = None
    /\ loads = 0
    /\ pc = [t \in Threads |-> "idle"]
    /\ req = [t \in Threads |-> NoRequest]
    /\ res = [t \in Threads |-> NoResult]

Init == artifact \in LoadArtifacts /\ InitService

InitEngine == artifact \in {AlignedArtifact(c) : c \in Catalogs} /\ InitService

(***************************************************************************)
(* Actions.  A call is: the check of the `model` property (line 32), the   *)
(* statements of _load_model when the check finds None (lines 40-45), and  *)
(* the body of the operation.  The body only reads the shared fields, and  *)
(* the nested `self.model` checks it repeats find _model set, so it is one *)
(* step.                                                                   *)
(***************************************************************************)
\* A thread starts a call.
Call(t, r) ==
    /\ pc[t] = "idle"
    /\ pc' = [pc EXCEPT ![t] = "check"]
    /\ req' = [req EXCEPT ![t] = r]
    /\ res' = [res EXCEPT ![t] = NoResult]
    /\ UNCHANGED <<artifact, _model, _df, _embeddings, _movie_titles, loads>>

\* An exception leaves the call; health_check catches it and reports 503.
Raised(t, exc) ==
    IF req[t].op = "health_check"
    THEN [kind |-> "health", status |-> "unhealthy", model_loaded |-> FALSE,
          total_movies |-> 0]
    ELSE Err(exc)

\* `if self._model is None:` (line 32)
ModelCheck(t) ==
    /\ pc[t] = "check"
    /\ pc' = [pc EXCEPT ![t] = IF IsNone(_model) THEN "load" ELSE "body"]
    /\ UNCHANGED <<artifact, _model, _df, _embeddings, _movie_titles, loads, req, res>>

\* `with open(...) as f: self._model = pickle.load(f)` (lines 40-41)
LoadPickle(t) ==
    /\ pc[t] = "load"
    /\ IF IsNone(artifact)
       THEN /\ res' = [res EXCEPT ![t] = Raised(t, "FileNotFoundError")]
            /\ pc' = [pc EXCEPT ![t] = "idle"]
            /\ UNCHANGED <<_model, loads>>
       ELSE /\ _model' = artifact
            /\ loads' = loads + 1
            /\ pc' = [pc EXCEPT ![t] = "set_df"]
            /\ UNCHANGED res
    /\ UNCHANGED <<artifact, _df, _embeddings, _movie_titles, req>>

\* `self._df = self._model['dataframe']` (line 43)
SetDf(t) ==
    /\ pc[t] = "set_df"
    /\ IF IsNone(Get(_model).dataframe)
       THEN /\ res' = [res EXCEPT ![t] = Raised(t, "KeyError")]
            /\ pc' = [pc EXCEPT ![t] = "idle"]
            /\ UNCHANGED _df
       ELSE /\ _df' = Get(_model).dataframe
            /\ pc' = [pc EXCEPT ![t] = "set_embeddings"]
            /\ UNCHANGED res
    /\ UNCHANGED <<artifact, _model, _embeddings, _movie_titles, loads, req>>

\* `self._embeddings = self._model['embeddings']` (line 44)
SetEmbeddings(t) ==
    /\ pc[t] = "set_embeddings"
    /\ IF IsNone(Get(_model).embeddings)
       THEN /\ res' = [res EXCEPT ![t] = Raised(t, "KeyError")]
            /\ pc' = [pc EXCEPT ![t] = "idle"]
            /\ UNCHANGED _embeddings
       ELSE /\ _embeddings' = Get(_model).embeddings
            /\ pc' = [pc EXCEPT ![t] = "set_titles"]
            /\ UNCHANGED res
    /\ UNCHANGED <<artifact, _model, _df, _movie_titles, loads, req>>

\* `self._movie_titles = self._model['movie_titles']` (line 45); no check of
\* the lengths follows, and the property returns to its caller.
SetTitles(t) ==
    /\ pc[t] = "set_titles"
    /\ IF IsNone(Get(_model).movie_titles)
       THEN /\ res' = [res EXCEPT ![t] = Raised(t, "KeyError")]
            /\ pc' = [pc EXCEPT ![t] = "idle"]
            /\ UNCHANGED _movie_titles
       ELSE /\ _movie_titles' = Get(_model).movie_titles
            /\ pc' = [pc EXCEPT ![t] = "body"]
            /\ UNCHANGED res
    /\ UNCHANGED <<artifact, _model, _df, _embeddings, loads, req>>

\* What the body of the call r returns or raises.
Outcome(r, dfO, embO, titlesO) ==
    CASE r.op = "search_movie" -> SearchMovie(dfO, titlesO, r.query, r.limit)
      [] r.op = "find_movie" -> FindMovie(titlesO, r.query, Threshold)
      [] r.op = "get_movie_details" -> GetMovieDetails(dfO, titlesO, r.query)
      [] r.op = "get_recommendations" ->
            GetRecommendations(dfO, embO, titlesO, r.query, r.top_n,
                               r.min_votes, r.min_rating)
      [] r.op = "health_check" -> HealthCheck(dfO)

\* The shared dataframe with the similarity column of line 131 written into
\* it, as it would be were df_work not a copy.
SharedFrameWritten(r, dfO, embO, titlesO) ==
    IF r.op = "get_recommendations"
       /\ Outcome(r, dfO, embO, titlesO).kind = "recommendations"
    THEN LET anchor == Outcome(r, dfO, embO, titlesO).movie_idx
         IN  Some([i \in 1..Len(Get(dfO)) |->
                    [title |-> Get(dfO)[i].title,
                     vote_average |-> Get(dfO)[i].vote_average,
                     vote_count |-> Get(dfO)[i].vote_count,
                     similarity |-> CosineSimilarity(Get(embO), anchor, i)]])
    ELSE dfO

\* self._df after the body of the call r: the per-request columns go to
\* df_work = self._df.copy() (line 130); no operation assigns the shared frame.
SharedFrameAfter(r, dfO, embO, titlesO) == dfO

\* The body of the operation, after `_ = self.model` has returned.
Body(t) ==
    /\ pc[t] = "body"
    /\ res' = [res EXCEPT ![t] = Outcome(req[t], _df, _embeddings, _movie_titles)]
    /\ _df' = SharedFrameAfter(req[t], _df, _embeddings, _movie_titles)
    /\ pc' = [pc EXCEPT ![t] = "idle"]
    /\ UNCHANGED <<artifact, _model, _embeddings, _movie_titles, loads, req>>

Step(t, calls) ==
    \/ \E r \in calls : Call(t, r)
    \/ ModelCheck(t)
    \/ LoadPickle(t)
    \/ SetDf(t)
    \/ SetEmbeddings(t)
    \/ SetTitles(t)
    \/ Body(t)

\* Request-parallel callers of one service instance.
Next == \E t \in Threads : Step(t, ConcurrentRequests)

Spec == Init /\ [][Next]_vars

\* One caller at a time, as when every handler runs to completion on the
\* event loop of app.py, over the artifacts of Init.
NextSerial == Step(MainThread, ConcurrentRequests)

SpecSerial == Init /\ [][NextSerial]_vars

\* One caller, over aligned catalogs and the wide pool of calls.
NextEngine == Step(MainThread, Requests)

SpecEngine == InitEngine /\ [][NextEngine]_vars

(***************************************************************************)
(* Properties.                                                             *)
(***************************************************************************)
AllPopulated ==
    ~IsNone(_model) /\ ~IsNone(_df) /\ ~IsNone(_embeddings) /\ ~IsNone(_movie_titles)

IsRecommendCall(t) ==
    pc[t] = "idle" /\ req[t].op = "get_recommendations"

Recommended(t) == IsRecommendCall(t) /\ res[t].kind = "recommendations"

\* C1: the artifact is deserialized into _model at most once per service
\* instance, also when several calls make the first access concurrently.
C1_LoadAtMostOnce == loads <= 1

\* C2: whenever a call has passed the loaded check (_model is not None) and
\* runs its body, the catalog, the embeddings and the title list are all
\* populated: no operation reads a half-initialized store.
C2_NoHalfInitializedStore ==
    \A t \in Threads : pc[t] = "body" => AllPopulated

\* C3: loading fails fast on an artifact whose collections disagree in
\* length, so in every loaded state the catalog, the embeddings and the
\* titles have the same length.
C3_LoadedLengthsAgree ==
    AllPopulated =>
        /\ Len(Get(_df)) = Len(Get(_embeddings))
        /\ Len(Get(_df)) = Len(Get(_movie_titles))

\* C4: the row the input title resolved to (the first catalog row carrying
\* the matched title) never appears in its own recommendation list, also in
\* catalogs with duplicate titles.
C4_SelfExclusion ==
    \A t \in Threads :
        Recommended(t) =>
            LET anchor == MinOf(RowsTitled(Get(_df), res[t].input_movie))
            IN  /\ Accepts(FuzzRatio(req[t].query, res[t].input_movie), Threshold)
                /\ \A k \in 1..Len(res[t].recommendations) :
                      /\ res[t].recommendations[k].idx # anchor
                      /\ res[t].recommendations[k].idx \in 1..Len(Get(_df))
                      /\ res[t].recommendations[k].title =
                            Get(_df)[res[t].recommendations[k].idx].title

\* A recommendation list that holds a row with the anchor's own title.
C4_Witness ==
    \E t \in Threads :
        /\ Recommended(t)
        /\ \E k \in 1..Len(res[t].recommendations) :
              res[t].recommendations[k].title = res[t].input_movie

\* C5 as claimed: every returned votes value is >= min_votes and every
\* returned rating value (one decimal, in tenths here) is >= min_rating.
C5_ReturnedValuesPassFilter ==
    \A t \in Threads :
        Recommended(t) =>
            \A k \in 1..Len(res[t].recommendations) :
                /\ res[t].recommendations[k].votes >= req[t].min_votes
                /\ 10 * res[t].recommendations[k].rating >= req[t].min_rating

\* C5 amended: every returned row has vote_count >= min_votes and an
\* unrounded vote_average >= min_rating; the returned votes is the
\* vote_count and the returned rating is the vote_average rounded to one
\* decimal, which is at most 0.05 below min_rating.
C5_RowsPassFilter ==
    \A t \in Threads :
        Recommended(t) =>
            \A k \in 1..Len(res[t].recommendations) :
                LET rec == res[t].recommendations[k]
                    row == Get(_df)[rec.idx]
                IN  /\ row.vote_count >= req[t].min_votes
                    /\ row.vote_average >= req[t].min_rating
                    /\ rec.votes = row.vote_count
                    /\ Abs(10 * rec.rating - row.vote_average) <= 5
                    /\ 10 * rec.rating >= req[t].min_rating - 5

\* A returned row whose vote_average passes min_rating > 0 exactly.
C5_Witness ==
    \E t \in Threads :
        /\ Recommended(t)
        /\ req[t].min_rating > 0
        /\ req[t].min_votes > 0
        /\ \E k \in 1..Len(res[t].recommendations) :
              Get(_df)[res[t].recommendations[k].idx].vote_average = req[t].min_rating

\* C6: get_recommendations returns at most top_n recommendations and
\* search_movie at most limit results, and never more than the catalog holds.
C6_BoundedSize ==
    \A t \in Threads :
        /\ Recommended(t) =>
              /\ Len(res[t].recommendations) <= req[t].top_n
              /\ res[t].total_recommendations = Len(res[t].recommendations)
        /\ (pc[t] = "idle" /\ req[t].op = "search_movie" /\ res[t].kind = "search") =>
              /\ Len(res[t].results) <= req[t].limit
              /\ Len(res[t].results) <= Len(Get(_df))

\* More rows pass the filter than top_n allows, and top_n are returned.
C6_Witness ==
    \E t \in Threads :
        /\ Recommended(t)
        /\ Len(res[t].recommendations) = req[t].top_n
        /\ Cardinality(Filtered(Get(_df), res[t].movie_idx,
                                req[t].min_votes, req[t].min_rating)) > req[t].top_n

\* No title of the catalog reaches the threshold for the query q.
Unresolvable(q) ==
    \A i \in 1..Len(Get(_movie_titles)) :
        ~RatGE(FuzzRatio(q, Get(_movie_titles)[i]), Rat(Threshold, 1))

IsBlank(q) == \A k \in 1..Len(q) : q[k] = " "

\* C8: an empty or whitespace-only query yields an empty result list from
\* search_movie and no match (None) from find_movie, for every catalog.
C8_BlankQueryYieldsNothing ==
    \A t \in Threads :
        (pc[t] = "idle" /\ IsBlank(req[t].query)) =>
            /\ (req[t].op = "search_movie" /\ res[t].kind = "search")
                  => res[t].results = <<>>
            /\ (req[t].op = "find_movie" /\ res[t].kind = "found")
                  => IsNone(res[t].title)

\* C9: when every row has vote_count = 0, the popularity term is treated as
\* 0, so every returned row has a well-defined (non-NaN) final score.
C9_DegenerateCatalogScoresDefined ==
    \A t \in Threads :
        (Recommended(t) /\ \A i \in 1..Len(Get(_df)) : Get(_df)[i].vote_count = 0) =>
            \A k \in 1..Len(res[t].recommendations) :
                ~res[t].recommendations[k].nan

\* C10: once set by the load, _df, _embeddings and _movie_titles are never
\* changed by any step of any call, under every interleaving.
C10_LoadedStoreImmutable ==
    [][/\ ~IsNone(_df) => _df' = _df
       /\ ~IsNone(_embeddings) => _embeddings' = _embeddings
       /\ ~IsNone(_movie_titles) => _movie_titles' = _movie_titles]_vars

\* Both threads have completed a recommendation and the store still is the
\* artifact's.
C10_Witness ==
    /\ \A t \in Threads : Recommended(t)
    /\ AllPopulated
    /\ _df = Get(artifact).dataframe

\* finalScore = 0.6 * similarity + 0.4 * quality of row i as a numerator over
\* a denominator common to the rows of one call, the popularity term of the
\* quality being 0 when log1p of the largest vote count is 0.
FinalScoreOf(df, embs, anchor, i) ==
    LET lpmax == IF MaxLog1p(df) = 0 THEN 1 ELSE MaxLog1p(df)
        L == NormLcm(embs)
    IN  6 * Dot(embs[anchor], embs[i]) * (L \div Norm(embs[i])) * 10000 * lpmax
        + 4 * (7 * df[i].vote_average * lpmax
               + 3000 * Log1p(df[i].vote_count))
            * Norm(embs[anchor]) * L

\* The rows the claim calls eligible.
Eligible(df, anchor, min_votes, min_rating) ==
    {i \in 1..Len(df) :
        i # anchor /\ df[i].vote_count >= min_votes
                   /\ df[i].vote_average >= min_rating}

\* The list returned to t is the min(top_n, eligible) best eligible rows in
\* non-increasing finalScore order.
ReturnsTopN(t) ==
    LET df == Get(_df)
        embs == Get(_embeddings)
        anchor == MinOf(RowsTitled(df, res[t].input_movie))
        elig == Eligible(df, anchor, req[t].min_votes, req[t].min_rating)
        recs == res[t].recommendations
        returned == {recs[k].idx : k \in 1..Len(recs)}
    IN  /\ Len(recs) = MinNat(req[t].top_n, Cardinality(elig))
        /\ Cardinality(returned) = Len(recs)
        /\ returned \subseteq elig
        /\ \A k \in 1..(Len(recs) - 1) :
              FinalScoreOf(df, embs, anchor, recs[k].idx)
                 >= FinalScoreOf(df, embs, anchor, recs[k + 1].idx)
        /\ \A i \in elig \ returned : \A j \in returned :
              FinalScoreOf(df, embs, anchor, i)
                 <= FinalScoreOf(df, embs, anchor, j)

\* C11: for a resolved anchor, get_recommendations returns exactly the
\* min(top_n, number of eligible rows) eligible rows with the highest
\* finalScore, in non-increasing finalScore order: no omitted eligible row
\* has a strictly higher finalScore than a returned row.
C11_TopNByFinalScore ==
    \A t \in Threads : Recommended(t) => ReturnsTopN(t)

\* The same on the catalogs in which some row has a vote, where the
\* popularity term is defined.
C11_TopNWhenScoresDefined ==
    \A t \in Threads :
        (Recommended(t) /\ ~PopularityIsNaN(Get(_df))) => ReturnsTopN(t)

\* More eligible rows than top_n, of different finalScore, the better one
\* later in the catalog.
C11_DefinedWitness ==
    \E t \in Threads :
        /\ Recommended(t)
        /\ ~PopularityIsNaN(Get(_df))
        /\ Len(res[t].recommendations) = req[t].top_n
        /\ \E i \in Eligible(Get(_df), res[t].movie_idx,
                             req[t].min_votes, req[t].min_rating) :
              /\ i < res[t].recommendations[1].idx
              /\ FinalScoreOf(Get(_df), Get(_embeddings), res[t].movie_idx, i)
                    < FinalScoreOf(Get(_df), Get(_embeddings), res[t].movie_idx,
                                   res[t].recommendations[1].idx)

====
